---- MODULE Spec2Model ----
(***************************************************************************)
(* Credential lifecycle of EnviroSense's authentication endpoints          *)
(* (backend/app/api/v1/endpoints/auth.py) over the users table             *)
(* (backend/app/models/user.py).                                           *)
(*                                                                         *)
(* The helpers of app.core.auth and app.core.db_utils are called by the    *)
(* endpoints but their bodies are not part of the sources at hand; they    *)
(* are modelled from the written specification (sections 4.2, 4.3 and 6)   *)
(* and from the way the endpoints use their results.                       *)
(***************************************************************************)
EXTENDS Integers, Sequences, FiniteSets, TLC

(***************************************************************************)
(* Bounds of the model.                                                    *)
(***************************************************************************)
MaxUsers == 2
MaxTime == 2
MaxTokens == 2

(***************************************************************************)
(* Program constants.                                                      *)
(***************************************************************************)
\* timedelta(hours=1), auth.py:198; the clock counts hours
ResetWindow == 1
\* len(request.token) < 32, auth.py:235
MinTokenLen == 32
\* the configured lockout threshold and window (specification 4.2)
LockThreshold == 3
LockWindow == 2
\* a nullable column holding no value (user.py:17-22), Python's None
NULL == -1

Usernames == {"alice", "bob"}
Emails == {"a@x.com", "b@x.com"}
Passwords == {"P@ss1", "NewP@ss2"}

\* secrets.token_urlsafe(32) yields 43 characters; token 0 stands for a
\* string shorter than the minimum, MaxTokens + 1 for a well-formed string
\* that was never issued.
ShortToken == 0
ForgedToken == MaxTokens + 1
IssuedTokens == 1..MaxTokens
ReqTokens == {ShortToken} \cup IssuedTokens \cup {ForgedToken}
TokenLen(t) == IF t = ShortToken THEN 8 ELSE 43

VARIABLES
    users,      \* the users table: users[i] is the row with id i
    now,        \* datetime.now(timezone.utc), in ticks
    nextToken,  \* the next value secrets.token_urlsafe returns
    issued,     \* history: what forgot_password did with each token
    procs,      \* the requests in flight, one per worker
    streak,     \* history: streak[i] counts the failed logins of user i in a row
    last,       \* history: the last request and its response
    sessions    \* history: the session tokens clients hold, each with its
                \* "sub" claim and the id of the row that was signed in

vars == <<users, now, nextToken, issued, procs, streak, last, sessions>>

(***************************************************************************)
(* Password hasher (app.core.auth).                                        *)
(***************************************************************************)
get_password_hash(password) == <<"hash", password>>
verify_password(password, hashed) == hashed = get_password_hash(password)

(***************************************************************************)
(* The users table.                                                        *)
(***************************************************************************)
User(username, email, hashed_password) ==
    [username |-> username, email |-> email,
     hashed_password |-> hashed_password,
     is_active |-> TRUE,
     failed_login_attempts |-> 0,
     last_failed_login |-> NULL,
     account_locked_until |-> NULL,
     reset_token |-> NULL,
     reset_token_expires |-> NULL]

UserIds(us) == 1..Len(us)

Min(S) == CHOOSE x \in S : \A y \in S : x <= y

\* db.query(User).filter(User.username == username).first()
get_user_by_username(us, username) ==
    LET hit == {i \in UserIds(us) : us[i].username = username}
    IN IF hit = {} THEN NULL ELSE Min(hit)

get_user_by_email(us, email) ==
    LET hit == {i \in UserIds(us) : us[i].email = email}
    IN IF hit = {} THEN NULL ELSE Min(hit)

\* lookup by active reset token: the stored token equals the given one and
\* has not expired
get_user_by_reset_token(us, token, t) ==
    LET hit == {i \in UserIds(us) : /\ us[i].reset_token # NULL
                                    /\ us[i].reset_token = token
                                    /\ us[i].reset_token_expires > t}
    IN IF hit = {} THEN NULL ELSE Min(hit)

\* the unique=True indexes on username and email
UniqueOk(us) ==
    \A i, j \in UserIds(us) :
        i # j => us[i].username # us[j].username /\ us[i].email # us[j].email

\* DbInsert on a table whose columns lost unique=True
DbInsert_NoIndex(us, row) == [ok |-> TRUE, users |-> Append(us, row)]

\* db.add(db_user); db.commit(): the insert fails on a unique index
DbInsert(us, row) ==
    LET next == Append(us, row)
    IN IF UniqueOk(next) THEN [ok |-> TRUE, users |-> next]
       ELSE [ok |-> FALSE, users |-> us]

\* store_reset_token(db, id, token, expires): writes both columns in one
\* update and reports whether the write succeeded (written = the outcome
\* of the store)
store_reset_token(us, id, token, expires, written) ==
    IF written
    THEN [ok |-> TRUE,
          users |-> [us EXCEPT ![id].reset_token = token,
                               ![id].reset_token_expires = expires]]
    ELSE [ok |-> FALSE, users |-> us]

\* update_user_password(db, id, hashed_password)
update_user_password(us, id, hashed, written) ==
    IF written
    THEN [ok |-> TRUE, users |-> [us EXCEPT ![id].hashed_password = hashed]]
    ELSE [ok |-> FALSE, users |-> us]

(***************************************************************************)
(* Responses.                                                              *)
(***************************************************************************)
Resp(status, detail) == [status |-> status, detail |-> detail]

(***************************************************************************)
(* POST /register                                                          *)
(***************************************************************************)
\* register_user without its email query: the insert meets the index
register_user_NoEmailCheck(us, username, email, password) ==
    IF get_user_by_username(us, username) # NULL
    THEN [users |-> us, resp |-> Resp(400, "Username already registered")]
    ELSE LET ins == DbInsert(us, User(username, email, get_password_hash(password)))
         IN IF ins.ok
            THEN [users |-> ins.users, resp |-> Resp(201, "User created successfully")]
            ELSE [users |-> us, resp |-> Resp(500, "Internal Server Error")]

register_user(us, username, email, password) ==
    IF get_user_by_username(us, username) # NULL
    THEN [users |-> us, resp |-> Resp(400, "Username already registered")]
    ELSE IF get_user_by_email(us, email) # NULL
    THEN [users |-> us, resp |-> Resp(400, "Email already registered")]
    ELSE LET ins == DbInsert(us, User(username, email, get_password_hash(password)))
         IN IF ins.ok
            THEN [users |-> ins.users, resp |-> Resp(201, "User created successfully")]
            ELSE [users |-> us, resp |-> Resp(500, "Internal Server Error")]

(***************************************************************************)
(* POST /forgot-password                                                   *)
(***************************************************************************)
\* forgot_password answering an unknown email with an error
forgot_password_Reveal(us, email, reset_token, t, written) ==
    LET user == get_user_by_email(us, email)
    IN IF user = NULL
       THEN [users |-> us, resp |-> Resp(404, "Email not registered"),
             log |-> "non-existent email"]
       ELSE LET expires_at == t + ResetWindow
                st == store_reset_token(us, user, reset_token, expires_at, written)
            IN [users |-> st.users,
                resp |-> Resp(200, "If your email is registered, you will receive password reset instructions."),
                log |-> IF st.ok THEN "Token stored in database"
                        ELSE "Token could not be stored in database"]

\* forgot_password storing the token in every row
forgot_password_AllRows(us, email, reset_token, t, written) ==
    LET user == get_user_by_email(us, email)
    IN IF user = NULL
       THEN [users |-> us,
             resp |-> Resp(200, "If your email is registered, you will receive password reset instructions."),
             log |-> "non-existent email"]
       ELSE LET expires_at == t + ResetWindow
                st == store_reset_token(us, user, reset_token, expires_at, written)
            IN [users |-> [i \in UserIds(us) |->
                             [st.users[i] EXCEPT
                                 !.reset_token = st.users[user].reset_token,
                                 !.reset_token_expires = st.users[user].reset_token_expires]],
                resp |-> Resp(200, "If your email is registered, you will receive password reset instructions."),
                log |-> IF st.ok THEN "Token stored in database"
                        ELSE "Token could not be stored in database"]

\* forgot_password storing a token that expires at once
forgot_password_NoWindow(us, email, reset_token, t, written) ==
    LET user == get_user_by_email(us, email)
    IN IF user = NULL
       THEN [users |-> us,
             resp |-> Resp(200, "If your email is registered, you will receive password reset instructions."),
             log |-> "non-existent email"]
       ELSE LET expires_at == t
                st == store_reset_token(us, user, reset_token, expires_at, written)
            IN [users |-> st.users,
                resp |-> Resp(200, "If your email is registered, you will receive password reset instructions."),
                log |-> IF st.ok THEN "Token stored in database"
                        ELSE "Token could not be stored in database"]

\* forgot_password that fails the request when the token was not stored
forgot_password_FailOnStore(us, email, reset_token, t, written) ==
    LET user == get_user_by_email(us, email)
    IN IF user = NULL
       THEN [users |-> us,
             resp |-> Resp(200, "If your email is registered, you will receive password reset instructions."),
             log |-> "non-existent email"]
       ELSE LET expires_at == t + ResetWindow
                st == store_reset_token(us, user, reset_token, expires_at, written)
            IN IF st.ok
               THEN [users |-> st.users,
                     resp |-> Resp(200, "If your email is registered, you will receive password reset instructions."),
                     log |-> "Token stored in database"]
               ELSE [users |-> st.users,
                     resp |-> Resp(500, "Token could not be stored in database"),
                     log |-> "Token could not be stored in database"]

forgot_password(us, email, reset_token, t, written) ==
    LET user == get_user_by_email(us, email)
    IN IF user = NULL
       THEN [users |-> us,
             resp |-> Resp(200, "If your email is registered, you will receive password reset instructions."),
             log |-> "non-existent email"]
       ELSE LET expires_at == t + ResetWindow
                st == store_reset_token(us, user, reset_token, expires_at, written)
            IN [users |-> st.users,
                resp |-> Resp(200, "If your email is registered, you will receive password reset instructions."),
                log |-> IF st.ok THEN "Token stored in database"
                        ELSE "Token could not be stored in database"]

(***************************************************************************)
(* POST /reset-password                                                    *)
(***************************************************************************)
\* reset_password without the check of the token's length
reset_password_NoFormatCheck(us, token, new_password, email, t, pwWritten, clearWritten) ==
    IF email = ""
    THEN [users |-> us, user |-> NULL,
          resp |-> Resp(400, "Please provide your email along with the token")]
    ELSE LET byToken == get_user_by_reset_token(us, token, t)
             user == IF byToken # NULL THEN byToken
                     ELSE get_user_by_email(us, email)
         IN IF user = NULL
            THEN [users |-> us, user |-> NULL,
                  resp |-> Resp(400, "Invalid token or email")]
            ELSE LET up == update_user_password(us, user,
                                get_password_hash(new_password), pwWritten)
                 IN IF up.ok
                    THEN [users |-> store_reset_token(up.users, user, NULL, NULL,
                                                      clearWritten).users,
                          user |-> user,
                          resp |-> Resp(200, "Password has been reset successfully")]
                    ELSE [users |-> us, user |-> user,
                          resp |-> Resp(500, "An error occurred while resetting your password")]

\* reset_password that clears the token and answers success without writing
\* the new hash
reset_password_KeepHash(us, token, new_password, email, t, pwWritten, clearWritten) ==
    IF TokenLen(token) < MinTokenLen
    THEN [users |-> us, user |-> NULL, resp |-> Resp(400, "Invalid token format")]
    ELSE IF email = ""
    THEN [users |-> us, user |-> NULL,
          resp |-> Resp(400, "Please provide your email along with the token")]
    ELSE LET byToken == get_user_by_reset_token(us, token, t)
             user == IF byToken # NULL THEN byToken
                     ELSE get_user_by_email(us, email)
         IN IF user = NULL
            THEN [users |-> us, user |-> NULL,
                  resp |-> Resp(400, "Invalid token or email")]
            ELSE [users |-> store_reset_token(us, user, NULL, NULL,
                                              clearWritten).users,
                  user |-> user,
                  resp |-> Resp(200, "Password has been reset successfully")]

reset_password(us, token, new_password, email, t, pwWritten, clearWritten) ==
    IF TokenLen(token) < MinTokenLen
    THEN [users |-> us, user |-> NULL, resp |-> Resp(400, "Invalid token format")]
    ELSE IF email = ""
    THEN [users |-> us, user |-> NULL,
          resp |-> Resp(400, "Please provide your email along with the token")]
    ELSE LET byToken == get_user_by_reset_token(us, token, t)
             user == IF byToken # NULL THEN byToken
                     ELSE get_user_by_email(us, email)
         IN IF user = NULL
            THEN [users |-> us, user |-> NULL,
                  resp |-> Resp(400, "Invalid token or email")]
            ELSE LET up == update_user_password(us, user,
                                get_password_hash(new_password), pwWritten)
                 IN IF up.ok
                    THEN [users |-> store_reset_token(up.users, user, NULL, NULL,
                                                      clearWritten).users,
                          user |-> user,
                          resp |-> Resp(200, "Password has been reset successfully")]
                    ELSE [users |-> us, user |-> user,
                          resp |-> Resp(500, "An error occurred while resetting your password")]

(***************************************************************************)
(* Authentication (app.core.auth.authenticate_user, specification 4.2).    *)
(* A wrong password or an unknown username comes back as a falsy value;    *)
(* a locked account is raised as an error of its own.                      *)
(***************************************************************************)
Locked(u, t) == u.account_locked_until # NULL /\ u.account_locked_until > t

\* authenticate_user that forgets to reset the lockout fields on success
authenticate_user_NoReset(us, username, password, t) ==
    LET id == get_user_by_username(us, username)
    IN IF id = NULL
       THEN [users |-> us, user |-> NULL, raised |-> ""]
       ELSE IF Locked(us[id], t)
       THEN [users |-> us, user |-> NULL, raised |-> "AccountLocked"]
       ELSE IF ~verify_password(password, us[id].hashed_password)
       THEN LET n == us[id].failed_login_attempts + 1
            IN [users |-> [us EXCEPT
                    ![id].failed_login_attempts = n,
                    ![id].last_failed_login = t,
                    ![id].account_locked_until =
                        IF n >= LockThreshold THEN t + LockWindow ELSE @],
                user |-> NULL, raised |-> ""]
       ELSE [users |-> us, user |-> id, raised |-> ""]

authenticate_user(us, username, password, t) ==
    LET id == get_user_by_username(us, username)
    IN IF id = NULL
       THEN [users |-> us, user |-> NULL, raised |-> ""]
       ELSE IF Locked(us[id], t)
       THEN [users |-> us, user |-> NULL, raised |-> "AccountLocked"]
       ELSE IF ~verify_password(password, us[id].hashed_password)
       THEN LET n == us[id].failed_login_attempts + 1
            IN [users |-> [us EXCEPT
                    ![id].failed_login_attempts = n,
                    ![id].last_failed_login = t,
                    ![id].account_locked_until =
                        IF n >= LockThreshold THEN t + LockWindow ELSE @],
                user |-> NULL, raised |-> ""]
       ELSE [users |-> [us EXCEPT ![id].failed_login_attempts = 0,
                                  ![id].account_locked_until = NULL],
             user |-> id, raised |-> ""]

(***************************************************************************)
(* POST /token                                                             *)
(***************************************************************************)
\* login_for_access_token wrapped in a handler that turns every failure of
\* authenticate_user into the 401
login_for_access_token_Catch(us, username, password, t) ==
    LET a == authenticate_user(us, username, password, t)
    IN IF a.user = NULL
       THEN [users |-> a.users, resp |-> Resp(401, "Incorrect username or password")]
       ELSE [users |-> a.users, resp |-> Resp(200, "bearer")]

login_for_access_token(us, username, password, t) ==
    LET a == authenticate_user(us, username, password, t)
    IN IF a.raised # ""
       THEN [users |-> a.users, resp |-> Resp(NULL, a.raised)]
       ELSE IF a.user = NULL
       THEN [users |-> a.users, resp |-> Resp(401, "Incorrect username or password")]
       ELSE [users |-> a.users, resp |-> Resp(200, "bearer")]

(***************************************************************************)
(* PUT /me                                                                 *)
(***************************************************************************)
\* the dict get_current_active_user hands to the endpoint
CurrentUser(us, id) ==
    [id |-> id, username |-> us[id].username, email |-> us[id].email]

NoCurrentUser == [id |-> NULL, username |-> "", email |-> ""]

\* UPDATE users SET username, email WHERE id; db.commit()
DbUpdateIdentity(us, id, username, email) ==
    LET next == [us EXCEPT ![id].username = username, ![id].email = email]
    IN IF UniqueOk(next) THEN [ok |-> TRUE, users |-> next]
       ELSE [ok |-> FALSE, users |-> us]

\* every exception, the 400s raised inside the try included, leaves the
\* endpoint as a 500
UpdateFailed(why) ==
    Resp(500, <<"An error occurred while updating the profile", why>>)

UsernameTaken(us, current_user, username) ==
    username # current_user.username /\ get_user_by_username(us, username) # NULL

EmailTaken(us, current_user, email) ==
    email # current_user.email /\ get_user_by_email(us, email) # NULL

update_user_profile(us, current_user, username, email) ==
    IF UsernameTaken(us, current_user, username)
    THEN [users |-> us, resp |-> UpdateFailed("Username already exists")]
    ELSE IF EmailTaken(us, current_user, email)
    THEN [users |-> us, resp |-> UpdateFailed("Email already exists")]
    ELSE LET up == DbUpdateIdentity(us, current_user.id, username, email)
         IN IF up.ok
            THEN [users |-> up.users, resp |-> Resp(200, "updated")]
            ELSE [users |-> us, resp |-> UpdateFailed("IntegrityError")]

(***************************************************************************)
(* Session tokens (app.core.auth).  The signed payload carries the         *)
(* username as "sub"; uid is history, the id of the row that was signed    *)
(* in, and is not in the payload.                                          *)
(***************************************************************************)
create_access_token(username, id) == [sub |-> username, uid |-> id]

\* get_current_active_user: the row is fetched again, by the token's
\* subject, and must be active
get_current_active_user(us, token) ==
    LET id == get_user_by_username(us, token.sub)
    IN IF id # NULL /\ us[id].is_active THEN id ELSE NULL

(***************************************************************************)
(* POST /change-password                                                   *)
(***************************************************************************)
\* the columns of the caller's row that change_password reads from the dict
\* of get_current_active_user
PasswordUser(us, id) ==
    [id |-> id, hashed_password |-> us[id].hashed_password]

\* UPDATE users SET hashed_password WHERE id; db.commit() (written = the
\* outcome of the store)
DbUpdatePassword(us, id, hashed, written) ==
    IF written
    THEN [ok |-> TRUE, users |-> [us EXCEPT ![id].hashed_password = hashed]]
    ELSE [ok |-> FALSE, users |-> us]

\* every exception, the 400 raised inside the try included, leaves the
\* endpoint as a 500
ChangeFailed(why) ==
    Resp(500, <<"An error occurred while changing the password", why>>)

change_password(us, current_user, current_password, new_password, written) ==
    IF ~verify_password(current_password, current_user.hashed_password)
    THEN [users |-> us, resp |-> ChangeFailed("Incorrect current password")]
    ELSE LET up == DbUpdatePassword(us, current_user.id,
                                    get_password_hash(new_password), written)
         IN IF up.ok
            THEN [users |-> up.users,
                  resp |-> Resp(200, "Password changed successfully")]
            ELSE [users |-> us, resp |-> ChangeFailed("OperationalError")]

(***************************************************************************)
(* History: what forgot_password did with each token, and the last         *)
(* request with its response.                                              *)
(***************************************************************************)
NoIssue == [owner |-> NULL, stored |-> FALSE, used |-> FALSE]

\* tok was stored for a user and a later token was stored for the same user
Superseded(tok) ==
    /\ issued[tok].stored
    /\ \E t2 \in IssuedTokens :
          /\ t2 > tok
          /\ issued[t2].stored
          /\ issued[t2].owner = issued[tok].owner

\* no forgot_password ran for tok's user after the one that made tok
LatestFor(tok) ==
    \A t2 \in IssuedTokens : t2 > tok => issued[t2].owner # issued[tok].owner

Request(op, username, email, password, token, resp) ==
    [op |-> op, username |-> username, email |-> email, password |-> password,
     token |-> token, prior |-> NULL, new_password |-> "", user |-> NULL,
     log |-> "", resp |-> resp]

\* token, user: the token a request carries or generated and the row it
\* resolved; start: history, the table when the request arrived
Idle == [pc |-> "idle", username |-> "", email |-> "", password |-> "",
         current_user |-> NoCurrentUser, token |-> NULL, user |-> NULL,
         start |-> << >>]

Procs == {"p1", "p2"}

Init ==
    /\ users = << >>
    /\ now = 0
    /\ nextToken = 1
    /\ issued = [t \in IssuedTokens |-> NoIssue]
    /\ procs = [p \in Procs |-> Idle]
    /\ streak = << >>
    /\ last = Request("init", "", "", "", NULL, Resp(0, ""))
    /\ sessions = {}

(***************************************************************************)
(* Requests served one at a time: each action below is one whole handler.  *)
(* The endpoints are explored in slices, one specification per group of    *)
(* endpoints that write the same columns: the reset flow (reset_token,     *)
(* reset_token_expires, hashed_password), the login flow (the lockout      *)
(* columns) and the identity columns under concurrent workers.             *)
(***************************************************************************)
Register ==
    \E username \in Usernames, email \in Emails, password \in Passwords :
        LET r == register_user(users, username, email, password)
        IN /\ Len(r.users) <= MaxUsers
           /\ users' = r.users
           /\ last' = Request("register", username, email, "", NULL, r.resp)
           /\ streak' = IF Len(r.users) > Len(users) THEN Append(streak, 0) ELSE streak
           /\ UNCHANGED <<now, nextToken, issued, procs, sessions>>

\* keep: whether the client keeps the session token for later requests
LoginWith(keep) ==
    \E username \in Usernames, password \in Passwords :
        LET r == login_for_access_token(users, username, password, now)
            id == get_user_by_username(users, username)
        IN /\ users' = r.users
           /\ last' = [Request("login", username, "", password, NULL, r.resp)
                          EXCEPT !.prior = IF id = NULL THEN NULL ELSE streak[id]]
           /\ streak' = IF id = NULL THEN streak
                        ELSE IF r.resp.status = 200 THEN [streak EXCEPT ![id] = 0]
                        ELSE IF r.resp.status = 401 THEN [streak EXCEPT ![id] = @ + 1]
                        ELSE streak
           /\ sessions' = IF keep /\ r.resp.status = 200
                          THEN sessions \cup {create_access_token(username, id)}
                          ELSE sessions
           /\ UNCHANGED <<now, nextToken, issued, procs>>

Login == LoginWith(FALSE)

\* a login whose session token the client presents again later
LoginSession == LoginWith(TRUE)

\* PUT /me with a session token: get_current_active_user resolves the
\* token, then the endpoint runs
UpdateProfile ==
    \E s \in sessions, username \in Usernames, email \in Emails :
        LET id == get_current_active_user(users, s)
        IN IF id = NULL
           THEN /\ last' = Request("update", username, email, "", NULL,
                                   Resp(401, "Could not validate credentials"))
                /\ UNCHANGED <<users, now, nextToken, issued, procs, streak, sessions>>
           ELSE LET r == update_user_profile(users, CurrentUser(users, id),
                                             username, email)
                IN /\ users' = r.users
                   /\ last' = [Request("update", username, email, "", NULL, r.resp)
                                  EXCEPT !.user = id]
                   /\ UNCHANGED <<now, nextToken, issued, procs, streak, sessions>>

\* writes: the outcomes the store write may have
ForgotWith(writes) ==
    \E email \in Emails, written \in writes :
        LET user == get_user_by_email(users, email)
            r == forgot_password(users, email, nextToken, now, written)
        IN /\ user # NULL => nextToken <= MaxTokens
           /\ users' = r.users
           /\ last' = [Request("forgot", "", email, "", NULL, r.resp)
                          EXCEPT !.log = r.log]
           /\ IF user = NULL
              THEN UNCHANGED <<nextToken, issued>>
              ELSE /\ nextToken' = nextToken + 1
                   /\ issued' = [issued EXCEPT ![nextToken] =
                                    [owner |-> user, stored |-> written,
                                     used |-> FALSE]]
           /\ UNCHANGED <<now, procs, streak, sessions>>

ForgotPassword == ForgotWith(BOOLEAN)

\* forgot_password while the store takes every write
ForgotStored == ForgotWith({TRUE})

\* the outcomes of the two store writes of reset_password: the password
\* update, then the clearing of the token
WriteOutcomes == {<<TRUE, TRUE>>, <<TRUE, FALSE>>, <<FALSE, FALSE>>}

ResetWith(outcomes) ==
    \E token \in ReqTokens, new_password \in Passwords, email \in Emails,
       w \in outcomes :
        LET r == reset_password(users, token, new_password, email, now, w[1], w[2])
        IN /\ users' = r.users
           /\ last' = [Request("reset", "", email, "", token, r.resp)
                          EXCEPT !.new_password = new_password, !.user = r.user]
           /\ issued' = IF /\ r.resp.status = 200
                           /\ token \in IssuedTokens
                           /\ issued[token].stored
                           /\ issued[token].owner = r.user
                        THEN [issued EXCEPT ![token].used = TRUE]
                        ELSE issued
           /\ UNCHANGED <<now, nextToken, procs, streak, sessions>>

ResetPassword == ResetWith(WriteOutcomes)

\* reset_password while the store takes every write
ResetWritten == ResetWith({<<TRUE, TRUE>>})

Tick ==
    /\ now < MaxTime
    /\ now' = now + 1
    /\ last' = Request("tick", "", "", "", NULL, Resp(0, ""))
    /\ UNCHANGED <<users, nextToken, issued, procs, streak, sessions>>

\* the first registration of a deployment
RegisterFirst == users = << >> /\ Register

\* one account going through the reset flow and logins, over a store that
\* never fails a write
SpecResetLogin ==
    Init /\ [][RegisterFirst \/ ForgotStored \/ ResetWritten \/ Login]_vars

\* registrations, logins that keep their session token, and profile updates
SpecSession ==
    Init /\ [][Register \/ LoginSession \/ UpdateProfile]_vars

\* one account going through the reset flow while time passes; the store
\* may fail the write of forgot_password
SpecResetOne ==
    Init /\ [][RegisterFirst \/ ForgotPassword \/ ResetWritten \/ Tick]_vars

\* a signed-in user changes the password; the UPDATE may fail
ChangePassword ==
    \E id \in UserIds(users), current_password \in Passwords,
       new_password \in Passwords, written \in BOOLEAN :
        LET r == change_password(users, PasswordUser(users, id),
                                 current_password, new_password, written)
        IN /\ users' = r.users
           /\ last' = [Request("change", users[id].username, "",
                               current_password, NULL, r.resp)
                          EXCEPT !.new_password = new_password]
           /\ UNCHANGED <<now, nextToken, issued, procs, streak, sessions>>

\* the reset flow, at one instant, where the two store writes of
\* reset_password may fail
SpecResetFault ==
    Init /\ [][Register \/ ForgotStored \/ ResetPassword]_vars

\* the reset flow over a store that never fails a write
SpecResetNoFault ==
    Init /\ [][Register \/ ForgotStored \/ ResetWritten \/ Tick]_vars

SpecLogin ==
    Init /\ [][Register \/ Login \/ Tick]_vars

(***************************************************************************)
(* register_user and update_user_profile served by concurrent workers:     *)
(* each query and each commit is a step of its own, so the steps of two    *)
(* requests interleave.                                                    *)
(***************************************************************************)
RacePasswords == {"P@ss1"}

InFlight == {p \in Procs : procs[p].pc \in {"reg_email", "reg_commit"}}

Respond(p, op, resp) ==
    /\ procs' = [procs EXCEPT ![p] = Idle]
    /\ last' = Request(op, procs[p].username, procs[p].email, "", NULL, resp)

\* auth.py:41-43, the username query of register_user
RegCheckUsername(p) ==
    /\ procs[p].pc = "idle"
    /\ \E username \in Usernames, email \in Emails, password \in RacePasswords :
          IF get_user_by_username(users, username) # NULL
          THEN /\ last' = Request("register", username, email, "", NULL,
                                  Resp(400, "Username already registered"))
               /\ UNCHANGED procs
          ELSE /\ Len(users) + Cardinality(InFlight) < MaxUsers
               /\ procs' = [procs EXCEPT ![p] =
                              [Idle EXCEPT !.pc = "reg_email", !.username = username,
                                           !.email = email, !.password = password]]
               /\ UNCHANGED last
    /\ UNCHANGED <<users, now, nextToken, issued, streak, sessions>>

\* auth.py:46-48, the email query of register_user
RegCheckEmail(p) ==
    /\ procs[p].pc = "reg_email"
    /\ IF get_user_by_email(users, procs[p].email) # NULL
       THEN Respond(p, "register", Resp(400, "Email already registered"))
       ELSE /\ procs' = [procs EXCEPT ![p].pc = "reg_commit"]
            /\ UNCHANGED last
    /\ UNCHANGED <<users, now, nextToken, issued, streak, sessions>>

\* auth.py:51-57, the insert of register_user
RegCommit(p) ==
    /\ procs[p].pc = "reg_commit"
    /\ LET ins == DbInsert(users, User(procs[p].username, procs[p].email,
                                       get_password_hash(procs[p].password)))
       IN /\ users' = ins.users
          /\ streak' = IF ins.ok THEN Append(streak, 0) ELSE streak
          /\ Respond(p, "register",
                     IF ins.ok THEN Resp(201, "User created successfully")
                     ELSE Resp(500, "Internal Server Error"))
    /\ UNCHANGED <<now, nextToken, issued, sessions>>

\* auth.py:94, get_current_active_user resolves the caller to a row
UpdAuth(p) ==
    /\ procs[p].pc = "idle"
    /\ \E id \in UserIds(users), username \in Usernames, email \in Emails :
          procs' = [procs EXCEPT ![p] =
                      [Idle EXCEPT !.pc = "upd_username", !.username = username,
                                   !.email = email,
                                   !.current_user = CurrentUser(users, id)]]
    /\ UNCHANGED <<users, now, nextToken, issued, streak, last, sessions>>

\* auth.py:99-104, the username query of update_user_profile
UpdCheckUsername(p) ==
    /\ procs[p].pc = "upd_username"
    /\ IF UsernameTaken(users, procs[p].current_user, procs[p].username)
       THEN Respond(p, "update", UpdateFailed("Username already exists"))
       ELSE /\ procs' = [procs EXCEPT ![p].pc = "upd_email"]
            /\ UNCHANGED last
    /\ UNCHANGED <<users, now, nextToken, issued, streak, sessions>>

\* auth.py:107-112, the email query of update_user_profile
UpdCheckEmail(p) ==
    /\ procs[p].pc = "upd_email"
    /\ IF EmailTaken(users, procs[p].current_user, procs[p].email)
       THEN Respond(p, "update", UpdateFailed("Email already exists"))
       ELSE /\ procs' = [procs EXCEPT ![p].pc = "upd_commit"]
            /\ UNCHANGED last
    /\ UNCHANGED <<users, now, nextToken, issued, streak, sessions>>

\* auth.py:115-121, the UPDATE and commit of update_user_profile
UpdCommit(p) ==
    /\ procs[p].pc = "upd_commit"
    /\ LET up == DbUpdateIdentity(users, procs[p].current_user.id,
                                  procs[p].username, procs[p].email)
       IN /\ users' = up.users
          /\ Respond(p, "update",
                     IF up.ok THEN Resp(200, "updated")
                     ELSE UpdateFailed("IntegrityError"))
    /\ UNCHANGED <<now, nextToken, issued, streak, sessions>>

RaceNext ==
    \E p \in Procs :
        \/ RegCheckUsername(p)
        \/ RegCheckEmail(p)
        \/ RegCommit(p)
        \/ UpdAuth(p)
        \/ UpdCheckUsername(p)
        \/ UpdCheckEmail(p)
        \/ UpdCommit(p)

SpecRace == Init /\ [][RaceNext]_vars

SpecForgot ==
    Init /\ [][Register \/ ForgotPassword \/ Tick]_vars

(***************************************************************************)
(* reset_password and forgot_password served by concurrent workers: each   *)
(* call to db_utils is a step of its own.  One worker serves a             *)
(* reset_password while the other serves a forgot_password that arrived    *)
(* at the same time; the store takes every write.                          *)
(***************************************************************************)
ResetWorker == "p1"
ForgotWorker == "p2"

Quiet == \A p \in Procs : procs[p].pc = "idle"

Finished == \A p \in Procs : procs[p].pc = "done"

\* the account and its tokens before the two requests arrive
SetupRegister == Quiet /\ RegisterFirst

SetupForgot == Quiet /\ ForgotStored

\* the two requests arrive
Arrive ==
    /\ Quiet
    /\ users # << >>
    /\ \E token \in ReqTokens, new_password \in Passwords, email \in Emails,
          forgot_email \in Emails :
          procs' = [procs EXCEPT
                      ![ResetWorker] =
                          [Idle EXCEPT !.pc = "rst_token", !.token = token,
                                       !.password = new_password,
                                       !.email = email, !.start = users],
                      ![ForgotWorker] =
                          [Idle EXCEPT !.pc = "fgt_lookup",
                                       !.email = forgot_email, !.start = users]]
    /\ UNCHANGED <<users, now, nextToken, issued, streak, last, sessions>>

\* the request of worker p is answered
Done(p, op, resp) ==
    /\ procs' = [procs EXCEPT ![p].pc = "done"]
    /\ last' = [Request(op, "", procs[p].email, "", procs[p].token, resp)
                   EXCEPT !.user = procs[p].user]

\* auth.py:234-258, the format checks and get_user_by_reset_token
ResetLookupToken(p) ==
    /\ procs[p].pc = "rst_token"
    /\ IF TokenLen(procs[p].token) < MinTokenLen
       THEN Done(p, "reset", Resp(400, "Invalid token format"))
       ELSE LET user == get_user_by_reset_token(users, procs[p].token, now)
            IN /\ procs' = [procs EXCEPT
                              ![p].pc = IF user = NULL THEN "rst_email"
                                        ELSE "rst_update",
                              ![p].user = user]
               /\ UNCHANGED last
    /\ UNCHANGED <<users, now, nextToken, issued, streak, sessions>>

\* auth.py:261-269, the fallback get_user_by_email
ResetLookupEmail(p) ==
    /\ procs[p].pc = "rst_email"
    /\ LET user == get_user_by_email(users, procs[p].email)
       IN IF user = NULL
          THEN Done(p, "reset", Resp(400, "Invalid token or email"))
          ELSE /\ procs' = [procs EXCEPT ![p].pc = "rst_update", ![p].user = user]
               /\ UNCHANGED last
    /\ UNCHANGED <<users, now, nextToken, issued, streak, sessions>>

\* auth.py:272-277, update_user_password
ResetUpdate(p) ==
    /\ procs[p].pc = "rst_update"
    /\ users' = update_user_password(users, procs[p].user,
                     get_password_hash(procs[p].password), TRUE).users
    /\ procs' = [procs EXCEPT ![p].pc = "rst_clear"]
    /\ UNCHANGED <<now, nextToken, issued, streak, last, sessions>>

\* auth.py:279-285, store_reset_token(None, None) and the answer
ResetClear(p) ==
    /\ procs[p].pc = "rst_clear"
    /\ users' = store_reset_token(users, procs[p].user, NULL, NULL, TRUE).users
    /\ Done(p, "reset", Resp(200, "Password has been reset successfully"))
    /\ UNCHANGED <<now, nextToken, issued, streak, sessions>>

\* auth.py:181-191, get_user_by_email and secrets.token_urlsafe
ForgotLookup(p) ==
    /\ procs[p].pc = "fgt_lookup"
    /\ LET user == get_user_by_email(users, procs[p].email)
       IN IF user = NULL
          THEN /\ Done(p, "forgot", Resp(200, "If your email is registered, you will receive password reset instructions."))
               /\ UNCHANGED <<nextToken, issued>>
          ELSE /\ nextToken <= MaxTokens
               /\ procs' = [procs EXCEPT ![p].pc = "fgt_store", ![p].user = user,
                                         ![p].token = nextToken]
               /\ nextToken' = nextToken + 1
               /\ issued' = [issued EXCEPT ![nextToken] =
                                [owner |-> user, stored |-> FALSE, used |-> FALSE]]
               /\ UNCHANGED last
    /\ UNCHANGED <<users, now, streak, sessions>>

\* auth.py:198-206, store_reset_token and the answer
ForgotStore(p) ==
    /\ procs[p].pc = "fgt_store"
    /\ users' = store_reset_token(users, procs[p].user, procs[p].token,
                                  now + ResetWindow, TRUE).users
    /\ issued' = [issued EXCEPT ![procs[p].token].stored = TRUE]
    /\ Done(p, "forgot", Resp(200, "If your email is registered, you will receive password reset instructions."))
    /\ UNCHANGED <<now, nextToken, streak, sessions>>

ResetRaceNext ==
    \/ SetupRegister
    \/ SetupForgot
    \/ Arrive
    \/ ResetLookupToken(ResetWorker)
    \/ ResetLookupEmail(ResetWorker)
    \/ ResetUpdate(ResetWorker)
    \/ ResetClear(ResetWorker)
    \/ ForgotLookup(ForgotWorker)
    \/ ForgotStore(ForgotWorker)

SpecResetRace == Init /\ [][ResetRaceNext]_vars

\* the table after the two requests served one after the other, each as a
\* whole, from the table they arrived at
ResetThenForgot ==
    LET r == reset_password(procs[ResetWorker].start, procs[ResetWorker].token,
                            procs[ResetWorker].password, procs[ResetWorker].email,
                            now, TRUE, TRUE)
    IN forgot_password(r.users, procs[ForgotWorker].email,
                       procs[ForgotWorker].token, now, TRUE).users

ForgotThenReset ==
    LET f == forgot_password(procs[ResetWorker].start, procs[ForgotWorker].email,
                             procs[ForgotWorker].token, now, TRUE)
    IN reset_password(f.users, procs[ResetWorker].token,
                      procs[ResetWorker].password, procs[ResetWorker].email,
                      now, TRUE, TRUE).users

ResetFields(us, i) ==
    <<us[i].hashed_password, us[i].reset_token, us[i].reset_token_expires>>

\* registration and password change over a store whose UPDATE may fail
SpecChange ==
    Init /\ [][Register \/ ChangePassword]_vars

(***************************************************************************)
(* Properties.                                                             *)
(***************************************************************************)
HashKept(i) == users'[i].hashed_password = users[i].hashed_password

\* C1: once a token stored for user u was consumed by a successful
\* reset_password, a later reset_password with the same token and u's email,
\* with no forgot_password for u in between, fails and leaves u's hash as
\* it was.
C1_SecondConsumptionFails ==
    [][(/\ last'.op = "reset"
        /\ last'.token \in IssuedTokens
        /\ issued[last'.token].stored
        /\ issued[last'.token].used
        /\ LatestFor(last'.token)
        /\ users[issued[last'.token].owner].email = last'.email)
       => /\ last'.resp.status # 200
          /\ HashKept(issued[last'.token].owner)]_vars

\* C2: a reset_password changes the hash of a user only when the supplied
\* token is that user's stored, unexpired reset_token; a well-formed token
\* that matches no stored token is answered "Invalid token or email" and
\* changes no hash.
C2_OnlyTheLiveTokenResets ==
    [][last'.op = "reset"
       => /\ \A i \in UserIds(users) :
                ~HashKept(i) => /\ users[i].reset_token # NULL
                                /\ users[i].reset_token = last'.token
                                /\ users[i].reset_token_expires > now
          /\ (/\ TokenLen(last'.token) >= MinTokenLen
              /\ \A i \in UserIds(users) : users[i].reset_token # last'.token)
             => /\ last'.resp = Resp(400, "Invalid token or email")
                /\ \A i \in UserIds(users) : HashKept(i)]_vars

\* C3: after a second token was stored for the same user, a reset_password
\* with the first token fails and leaves that user's hash as it was.
C3_SupersededTokenFails ==
    [][(/\ last'.op = "reset"
        /\ last'.token \in IssuedTokens
        /\ Superseded(last'.token))
       => /\ last'.resp.status # 200
          /\ HashKept(issued[last'.token].owner)]_vars

\* C4: forgot_password stores the expiry now + 1 hour; a reset_password with
\* the stored token is not refused before that expiry, and after it the
\* request fails and the hash stays as it was.
C4_ExpiryWindow ==
    [][/\ (last'.op = "forgot" /\ users' # users)
          => \E i \in UserIds(users) :
                /\ users'[i].reset_token = nextToken
                /\ users'[i].reset_token_expires = now + ResetWindow
       /\ last'.op = "reset"
          => \A i \in UserIds(users) :
                (users[i].reset_token # NULL /\ users[i].reset_token = last'.token)
                => /\ now < users[i].reset_token_expires
                      => last'.resp.status # 400
                   /\ now > users[i].reset_token_expires
                      => last'.resp.status # 200 /\ HashKept(i)]_vars

\* C5: a reset_password either answers success, having written one user's
\* hash and left that user without reset_token and reset_token_expires, or
\* answers a failure and leaves the whole table as it was.
C5_AllOrNothing ==
    [][last'.op = "reset"
       => IF last'.resp.status = 200
          THEN \E i \in UserIds(users) :
                  /\ users'[i].reset_token = NULL
                  /\ users'[i].reset_token_expires = NULL
                  /\ users' = [users EXCEPT
                                 ![i].hashed_password = users'[i].hashed_password,
                                 ![i].reset_token = NULL,
                                 ![i].reset_token_expires = NULL]
          ELSE users' = users]_vars

\* C6: the failed login that makes the streak of a user reach the threshold
\* sets account_locked_until in the future, and every login for a user
\* whose streak reached the threshold is answered AccountLocked and changes
\* nothing, whatever the password, while account_locked_until is in the
\* future.
C6_LockedAfterThreshold ==
    [][last'.op = "login"
       => LET id == get_user_by_username(users, last'.username)
          IN id # NULL
             => /\ (streak'[id] >= LockThreshold /\ last'.resp.status = 401)
                   => users'[id].account_locked_until > now
                /\ (/\ streak[id] >= LockThreshold
                    /\ users[id].account_locked_until > now)
                   => /\ last'.resp.detail = "AccountLocked"
                      /\ users' = users]_vars

C6_Witness ==
    /\ last.op = "login"
    /\ last.resp.detail = "AccountLocked"
    /\ last.prior >= LockThreshold
    /\ \E i \in UserIds(users) :
          /\ users[i].username = last.username
          /\ verify_password(last.password, users[i].hashed_password)

\* C7: after a login answered with a token, the user has
\* failed_login_attempts = 0 and no account_locked_until.
C7_SuccessResetsLockout ==
    (last.op = "login" /\ last.resp.status = 200)
    => \A i \in UserIds(users) :
          users[i].username = last.username
          => /\ users[i].failed_login_attempts = 0
             /\ users[i].account_locked_until = NULL

C7_Witness ==
    /\ last.op = "login"
    /\ last.resp.status = 200
    /\ last.prior >= LockThreshold

\* C8: forgot_password answers every request with the same status and body,
\* whether or not the email belongs to a user and whether or not the token
\* was stored.
C8_ForgotAnswersAlike ==
    last.op = "forgot"
    => last.resp = Resp(200, "If your email is registered, you will receive password reset instructions.")

C8_Witness ==
    /\ last.op = "forgot"
    /\ get_user_by_email(users, last.email) = NULL
    /\ \E i \in UserIds(users) : users[i].reset_token # NULL
    /\ \E t \in IssuedTokens : issued[t].owner # NULL /\ ~issued[t].stored

\* C9: no two rows of the users table share a username and no two share an
\* email, under every interleaving of the steps of register_user and
\* update_user_profile.
C9_UniqueIdentities ==
    \A i, j \in UserIds(users) :
        i # j => /\ users[i].username # users[j].username
                 /\ users[i].email # users[j].email

\* a commit of register_user or update_user_profile met the unique index
IndexRejected ==
    \/ last.op = "register" /\ last.resp = Resp(500, "Internal Server Error")
    \/ last.op = "update" /\ last.resp = UpdateFailed("IntegrityError")

C9_Witness ==
    /\ IndexRejected
    /\ \E i \in UserIds(users) :
          users[i].username = last.username \/ users[i].email = last.email

\* C10: register_user with a username that a row already has is answered
\* "Username already registered", with a new username and an email that a
\* row already has "Email already registered"; either way the table stays
\* as it was.
C10_DuplicateRefused ==
    [][last'.op = "register"
       => /\ get_user_by_username(users, last'.username) # NULL
             => /\ last'.resp = Resp(400, "Username already registered")
                /\ users' = users
          /\ (/\ get_user_by_username(users, last'.username) = NULL
              /\ get_user_by_email(users, last'.email) # NULL)
             => /\ last'.resp = Resp(400, "Email already registered")
                /\ users' = users]_vars

C10_Witness ==
    /\ last.op = "register"
    /\ last.resp = Resp(400, "Username already registered")
    /\ get_user_by_email(users, last.email) = NULL

\* C11: a change_password whose current password does not verify against
\* the stored hash is answered 400 "Incorrect current password", an answer
\* other than the 500 of an internal fault, and leaves the hash as it was;
\* one whose current password verifies and whose UPDATE is committed leaves
\* the hash of the new password.
C11_IncorrectPasswordDistinct ==
    [][last'.op = "change"
       => LET id == get_user_by_username(users, last'.username)
          IN IF ~verify_password(last'.password, users[id].hashed_password)
             THEN /\ last'.resp = Resp(400, "Incorrect current password")
                  /\ last'.resp.status # ChangeFailed("OperationalError").status
                  /\ users' = users
             ELSE last'.resp.status = 200
                  => users' = [users EXCEPT ![id].hashed_password =
                                  get_password_hash(last'.new_password)]]_vars

\* C11, the parts the code keeps: a mismatch changes no row, a success
\* writes the hash of the new password to the caller's row only.
C11_HashEffect ==
    [][last'.op = "change"
       => LET id == get_user_by_username(users, last'.username)
          IN IF ~verify_password(last'.password, users[id].hashed_password)
             THEN last'.resp.status # 200 /\ users' = users
             ELSE last'.resp.status = 200
                  => users' = [users EXCEPT ![id].hashed_password =
                                  get_password_hash(last'.new_password)]]_vars

\* C12: after a reset_password answered with success for user u, the next
\* login of u is answered with a token when it carries the new password and
\* "Incorrect username or password" when it carries any other password.
C12_LoginAfterReset ==
    [][(/\ last.op = "reset"
        /\ last.resp.status = 200
        /\ last'.op = "login"
        /\ last'.username = users[last.user].username)
       => IF last'.password = last.new_password
          THEN last'.resp.status = 200
          ELSE last'.resp = Resp(401, "Incorrect username or password")]_vars

\* C12, amended: after a reset_password answered with success for user u
\* the stored hash of u is the hash of the new password, and the next login
\* of u, unless u is locked out, is answered with a token when it carries
\* the new password and "Incorrect username or password" when it carries
\* any other password; a locked u is answered AccountLocked either way.
C12_LoginAfterResetUnlessLocked ==
    [][(/\ last.op = "reset"
        /\ last.resp.status = 200
        /\ last'.op = "login"
        /\ last'.username = users[last.user].username)
       => /\ users[last.user].hashed_password = get_password_hash(last.new_password)
          /\ IF Locked(users[last.user], now)
             THEN last'.resp.detail = "AccountLocked"
             ELSE IF last'.password = last.new_password
             THEN last'.resp.status = 200
             ELSE last'.resp = Resp(401, "Incorrect username or password")]_vars

C12_Witness ==
    /\ last.op = "reset"
    /\ last.resp.status = 200
    /\ last.token \in IssuedTokens
    /\ issued[last.token].used
    /\ issued[last.token].owner = last.user
    /\ users[last.user].email = last.email
    /\ users[last.user].hashed_password = get_password_hash("NewP@ss2")
    /\ last.new_password = "NewP@ss2"
    /\ users[last.user].failed_login_attempts > 0
    /\ ~Locked(users[last.user], now)

\* C13: a forgot_password for a registered email whose store_reset_token
\* reports failure is still answered with the generic success response,
\* leaves the user's reset_token and reset_token_expires as they were, and
\* shows the failure in the log line only.
C13_StoreFailureIsSilent ==
    [][(/\ last'.op = "forgot"
        /\ get_user_by_email(users, last'.email) # NULL
        /\ ~issued'[nextToken].stored)
       => LET user == get_user_by_email(users, last'.email)
          IN /\ last'.resp = Resp(200, "If your email is registered, you will receive password reset instructions.")
             /\ users'[user].reset_token = users[user].reset_token
             /\ users'[user].reset_token_expires = users[user].reset_token_expires
             /\ last'.log = "Token could not be stored in database"]_vars

C13_Witness ==
    /\ last.op = "forgot"
    /\ last.log = "Token could not be stored in database"
    /\ \E i \in UserIds(users), t \in IssuedTokens :
          /\ users[i].email = last.email
          /\ t = nextToken - 1
          /\ issued[t].owner = i
          /\ ~issued[t].stored
          /\ users[i].reset_token # NULL
          /\ users[i].reset_token # t

\* C14: when a reset_password and a forgot_password for the same user were
\* served concurrently, the user's hash, reset_token and reset_token_expires
\* at the end are those of the two requests served one after the other, in
\* one of the two orders.
C14_SerialOutcome ==
    (/\ Finished
     /\ procs[ForgotWorker].user # NULL)
    => LET i == procs[ForgotWorker].user
       IN \/ ResetFields(users, i) = ResetFields(ResetThenForgot, i)
          \/ ResetFields(users, i) = ResetFields(ForgotThenReset, i)

\* C14, in particular: the clearing step of a reset_password never removes
\* the token that the concurrent forgot_password has stored meanwhile.
C14_FreshTokenKept ==
    (/\ last.op = "reset"
     /\ last.resp.status = 200
     /\ procs[ForgotWorker].pc = "done"
     /\ procs[ForgotWorker].user = last.user
     /\ procs[ForgotWorker].token # last.token)
    => users[last.user].reset_token = procs[ForgotWorker].token

\* C15: a session token issued by a login of the row with id i resolves, in
\* every later state, to the row with id i or to no row.
C15_SessionKeepsIdentity ==
    \A s \in sessions :
        get_current_active_user(users, s) \in {NULL, s.uid}

\* C16: in every state every user has a reset_token exactly when it has a
\* reset_token_expires, and the reset_token_expires of a stored token is
\* later than the current time.
C16_TokenLive ==
    \A i \in UserIds(users) :
        /\ users[i].reset_token = NULL <=> users[i].reset_token_expires = NULL
        /\ users[i].reset_token # NULL => users[i].reset_token_expires > now

\* C16, amended: in every state every user has a reset_token exactly when
\* it has a reset_token_expires; a step that stores a token stores an expiry
\* later than the current time; an expired token is not swept, it stays
\* stored while time passes.
C16_TokenWithExpiry ==
    [][\A i \in UserIds(users') :
          /\ users'[i].reset_token = NULL <=> users'[i].reset_token_expires = NULL
          /\ (/\ users'[i].reset_token # NULL
              /\ i \in UserIds(users) => users'[i].reset_token # users[i].reset_token)
             => users'[i].reset_token_expires > now'
          /\ (last'.op = "tick" /\ i \in UserIds(users))
             => /\ users'[i].reset_token = users[i].reset_token
                /\ users'[i].reset_token_expires = users[i].reset_token_expires]_vars

C16_Witness ==
    /\ last.op = "forgot"
    /\ \E i \in UserIds(users), t \in IssuedTokens :
          /\ users[i].email = last.email
          /\ users[i].reset_token = nextToken - 1
          /\ users[i].reset_token_expires > now
          /\ now > 0
          /\ issued[t].used
          /\ issued[t].owner = i

\* C17: a reset_password whose token is shorter than 32 characters is
\* answered "Invalid token format" without resolving any user, and leaves
\* the table as it was, whatever the email and the new password.
C17_ShortTokenRejected ==
    [][(last'.op = "reset" /\ TokenLen(last'.token) < MinTokenLen)
       => /\ last'.resp = Resp(400, "Invalid token format")
          /\ last'.user = NULL
          /\ users' = users]_vars

C17_Witness ==
    /\ last.op = "reset"
    /\ TokenLen(last.token) < MinTokenLen
    /\ \E i \in UserIds(users) :
          /\ users[i].email = last.email
          /\ users[i].reset_token # NULL
          /\ users[i].reset_token_expires > now
          /\ users[i].hashed_password # get_password_hash(last.new_password)

\* C18: a forgot_password changes nothing but the reset_token and the
\* reset_token_expires of the one user whose email the request carries, and
\* leaves the whole table as it was when no user has that email.
C18_ForgotFrame ==
    [][last'.op = "forgot"
       => LET user == get_user_by_email(users, last'.email)
          IN IF user = NULL
             THEN users' = users
             ELSE users' = [users EXCEPT
                              ![user].reset_token = users'[user].reset_token,
                              ![user].reset_token_expires =
                                  users'[user].reset_token_expires]]_vars

C18_Witness ==
    /\ last.op = "forgot"
    /\ \E i, j \in UserIds(users) :
          /\ i # j
          /\ users[i].email = last.email
          /\ users[i].reset_token = nextToken - 1
          /\ users[j].reset_token # NULL
          /\ users[j].reset_token # users[i].reset_token

====
